---- MODULE Spec2Model ----
(***************************************************************************)
(* Model of streamlit_bingo_app.py: the item extractor                     *)
(* (parse_items_with_llm), the card renderer (generate_bingo_card) and the *)
(* module-level Streamlit driver that runs once per button click.          *)
(*                                                                         *)
(* Python strings are sequences of one-character strings, Python values    *)
(* are records tagged with their type, and list objects live in a small    *)
(* heap so that in-place mutation and aliasing are visible.                *)
(***************************************************************************)
EXTENDS Integers, Sequences, FiniteSets, TLC

(***************************************************************************)
(* Bounds of the model.                                                    *)
(***************************************************************************)
\* Steps of random.shuffle at which the random source may pick j # i.
MaxSwaps == 1
\* Longest of the short item lists handed to generate_bingo_card.
MaxShort == 3
\* Longest item list handed to generate_bingo_card.
MaxLong == 30

(***************************************************************************)
(* Constants of the program.                                               *)
(***************************************************************************)
SlotCount == 24
FreeIndex == 12
GridSize == 5
WrapWidth == 15

(***************************************************************************)
(* Characters and str methods.                                             *)
(***************************************************************************)
\* The backtick; SANY cannot read one inside a string literal, so the
\* character is named.
BT == "<backtick>"
QT == "\""
NL == "\n"
SP == " "
BS == "\\"

\* str.strip() and textwrap treat these as whitespace; json skips them too.
Whitespace == {SP, NL, "\t", "\r"}

Digits == {"0", "1", "2", "3", "4", "5", "6", "7", "8", "9"}

Range(s) == {s[k] : k \in 1..Len(s)}

MinOf(S) == CHOOSE m \in S : \A n \in S : m <= n

Drop(s, n) == SubSeq(s, n + 1, Len(s))

Take(s, n) == SubSeq(s, 1, IF n < Len(s) THEN n ELSE Len(s))

\* str.startswith
StartsWith(s, p) == Len(s) >= Len(p) /\ SubSeq(s, 1, Len(p)) = p

RECURSIVE LStrip(_)
LStrip(s) ==
    IF s # <<>> /\ s[1] \in Whitespace THEN LStrip(Tail(s)) ELSE s

RECURSIVE RStrip(_)
RStrip(s) ==
    IF s # <<>> /\ s[Len(s)] \in Whitespace
    THEN RStrip(SubSeq(s, 1, Len(s) - 1))
    ELSE s

\* str.strip()
Strip(s) == RStrip(LStrip(s))

\* str.split(sep): the parts between the non-overlapping occurrences of sep,
\* scanned left to right.
RECURSIVE Split(_, _)
Split(s, sep) ==
    LET hits == {k \in 1..(Len(s) - Len(sep) + 1) :
                    SubSeq(s, k, k + Len(sep) - 1) = sep}
    IN  IF hits = {}
        THEN <<s>>
        ELSE LET k == MinOf(hits)
             IN  <<SubSeq(s, 1, k - 1)>> \o Split(Drop(s, k + Len(sep) - 1), sep)

\* "sep".join(parts)
RECURSIVE Join(_, _)
Join(parts, sep) ==
    IF parts = <<>> THEN <<>>
    ELSE IF Len(parts) = 1 THEN parts[1]
    ELSE parts[1] \o sep \o Join(Tail(parts), sep)

(***************************************************************************)
(* Python values.                                                          *)
(***************************************************************************)
PyNone == [t |-> "none", s |-> <<>>, v |-> <<>>, n |-> 0]
PyStr(chars) == [t |-> "str", s |-> chars, v |-> <<>>, n |-> 0]
PyInt(k) == [t |-> "int", s |-> <<>>, v |-> <<>>, n |-> k]
PyBool(b) == [t |-> "bool", s |-> <<>>, v |-> <<>>, n |-> IF b THEN 1 ELSE 0]
PyList(elems) == [t |-> "list", s |-> <<>>, v |-> elems, n |-> 0]

\* Whether len(x) is defined.
HasLen(x) == x.t \in {"str", "list"}

\* len(x)
PyLen(x) == IF x.t = "str" THEN Len(x.s) ELSE Len(x.v)

\* The test written as `is not None`.
TruthyNotNone(x) == x.t # "none"

\* bool(x), as the test of an if statement takes it.
Truthy(x) ==
    CASE x.t = "none" -> FALSE
      [] x.t = "str" -> Len(x.s) > 0
      [] x.t = "list" -> Len(x.v) > 0
      [] OTHER -> x.n # 0

(***************************************************************************)
(* json.loads on texts without objects, escapes, signs, fractions or       *)
(* exponents: strings, arrays, non-negative integers, null, true, false.   *)
(***************************************************************************)
NoValue == [ok |-> FALSE, val |-> PyNone, end |-> 0]

Scanned(val, end) == [ok |-> TRUE, val |-> val, end |-> end]

\* The first position at or after p that holds no whitespace.
RECURSIVE SkipWs(_, _)
SkipWs(s, p) ==
    IF p <= Len(s) /\ s[p] \in Whitespace THEN SkipWs(s, p + 1) ELSE p

\* py_scanstring, p the position after the opening quote (strict mode:
\* a raw control character ends the parse).
ScanString(s, p) ==
    LET closes == {q \in p..Len(s) : s[q] = QT}
    IN  IF closes = {}
        THEN NoValue
        ELSE LET q == MinOf(closes)
                 body == SubSeq(s, p, q - 1)
             IN  IF \E k \in 1..Len(body) : body[k] \in {NL, "\t", "\r", BS}
                 THEN NoValue
                 ELSE Scanned(PyStr(body), q + 1)

DigitValue(c) ==
    CASE c = "0" -> 0 [] c = "1" -> 1 [] c = "2" -> 2 [] c = "3" -> 3
      [] c = "4" -> 4 [] c = "5" -> 5 [] c = "6" -> 6 [] c = "7" -> 7
      [] c = "8" -> 8 [] OTHER -> 9

RECURSIVE DigitsValue(_, _)
DigitsValue(ds, acc) ==
    IF ds = <<>> THEN acc
    ELSE DigitsValue(Tail(ds), acc * 10 + DigitValue(ds[1]))

\* NUMBER_RE at p, where s[p] is a digit: 0, or a run of digits.
ScanNumber(s, p) ==
    LET stops == {q \in p..(Len(s) + 1) : q > Len(s) \/ s[q] \notin Digits}
        q == IF s[p] = "0" THEN p + 1 ELSE MinOf(stops)
    IN  Scanned(PyInt(DigitsValue(SubSeq(s, p, q - 1), 0)), q)

RECURSIVE ScanValue(_, _)
RECURSIVE ScanItems(_, _, _)

\* JSONArray after the first value position p: value, then a comma or the
\* closing bracket.
ScanItems(s, p, acc) ==
    LET r == ScanValue(s, p)
        q == SkipWs(s, r.end)
    IN  IF ~r.ok \/ q > Len(s) THEN NoValue
        ELSE IF s[q] = "]" THEN Scanned(PyList(Append(acc, r.val)), q + 1)
        ELSE IF s[q] = "," THEN ScanItems(s, SkipWs(s, q + 1), Append(acc, r.val))
        ELSE NoValue

\* scan_once
ScanValue(s, p) ==
    IF p > Len(s) THEN NoValue
    ELSE IF s[p] = QT THEN ScanString(s, p + 1)
    ELSE IF s[p] = "["
         THEN LET q == SkipWs(s, p + 1)
              IN  IF q <= Len(s) /\ s[q] = "]"
                  THEN Scanned(PyList(<<>>), q + 1)
                  ELSE ScanItems(s, q, <<>>)
    ELSE IF p + 3 <= Len(s) /\ SubSeq(s, p, p + 3) = <<"n", "u", "l", "l">>
         THEN Scanned(PyNone, p + 4)
    ELSE IF p + 3 <= Len(s) /\ SubSeq(s, p, p + 3) = <<"t", "r", "u", "e">>
         THEN Scanned(PyBool(TRUE), p + 4)
    ELSE IF p + 4 <= Len(s) /\ SubSeq(s, p, p + 4) = <<"f", "a", "l", "s", "e">>
         THEN Scanned(PyBool(FALSE), p + 5)
    ELSE IF s[p] \in Digits THEN ScanNumber(s, p)
    ELSE NoValue

\* json.loads: one value between optional whitespace, nothing after it.
\* ok = FALSE stands for JSONDecodeError.
JsonLoads(s) ==
    LET r == ScanValue(s, SkipWs(s, 1))
    IN  IF r.ok /\ SkipWs(s, r.end) = Len(s) + 1 THEN r ELSE NoValue

(***************************************************************************)
(* parse_items_with_llm, after the remote call has returned.               *)
(***************************************************************************)
Fence == <<BT, BT, BT>>

\* Lines 31-37: the text handed to json.loads.
JsonText(content) ==
    LET stripped == Strip(content)
    IN  IF StartsWith(stripped, Fence)
        THEN LET inner == Split(stripped, Fence)[2]
                 untagged == IF StartsWith(inner, <<"j", "s", "o", "n">>)
                             THEN Drop(inner, 4)
                             ELSE inner
             IN  Strip(untagged)
        ELSE stripped

\* Lines 31-39: the value returned, or ok = FALSE for the exception raised.
ParseContent(content) == JsonLoads(JsonText(content))

(***************************************************************************)
(* textwrap.wrap(text, width=15) and the join of its lines, for texts      *)
(* without hyphens and tabs.                                               *)
(***************************************************************************)
\* TextWrapper._munge_whitespace: every whitespace character becomes a space.
Munge(text) == [k \in 1..Len(text) |-> IF text[k] \in Whitespace THEN SP ELSE text[k]]

\* TextWrapper._split: maximal runs of spaces and of other characters.
RECURSIVE Chunks(_)
Chunks(text) ==
    IF text = <<>> THEN <<>>
    ELSE LET breaks == {k \in 2..(Len(text) + 1) :
                           k > Len(text) \/ ((text[k] = SP) # (text[1] = SP))}
             k == MinOf(breaks)
         IN  <<SubSeq(text, 1, k - 1)>> \o Chunks(Drop(text, k - 1))

\* chunk.strip() == ''
IsBlank(chunk) == \A k \in 1..Len(chunk) : chunk[k] = SP

\* The inner loop of _wrap_chunks: chunks are taken while they fit.
RECURSIVE FillLine(_, _, _)
FillLine(chunks, cur_line, cur_len) ==
    IF chunks # <<>> /\ cur_len + Len(chunks[1]) <= WrapWidth
    THEN FillLine(Tail(chunks), Append(cur_line, chunks[1]), cur_len + Len(chunks[1]))
    ELSE [cur_line |-> cur_line, cur_len |-> cur_len, chunks |-> chunks]

\* TextWrapper._wrap_chunks with drop_whitespace and break_long_words.
RECURSIVE WrapChunks(_, _)
WrapChunks(chunks, lines) ==
    IF chunks = <<>> THEN lines
    ELSE LET start == IF IsBlank(chunks[1]) /\ lines # <<>> THEN Tail(chunks) ELSE chunks
             f == FillLine(start, <<>>, 0)
             \* _handle_long_word
             g == IF f.chunks # <<>> /\ Len(f.chunks[1]) > WrapWidth
                  THEN LET space_left == WrapWidth - f.cur_len
                       IN  [cur_line |-> Append(f.cur_line, Take(f.chunks[1], space_left)),
                            chunks |-> <<Drop(f.chunks[1], space_left)>> \o Tail(f.chunks)]
                  ELSE [cur_line |-> f.cur_line, chunks |-> f.chunks]
             kept == IF g.cur_line # <<>> /\ IsBlank(g.cur_line[Len(g.cur_line)])
                     THEN SubSeq(g.cur_line, 1, Len(g.cur_line) - 1)
                     ELSE g.cur_line
         IN  WrapChunks(g.chunks,
                        IF kept # <<>> THEN Append(lines, Join(kept, <<>>)) ELSE lines)

\* Line 67: "\n".join(textwrap.wrap(label, width=15))
WrappedLabel(text) == Join(WrapChunks(Chunks(Munge(text)), <<>>), <<NL>>)

(***************************************************************************)
(* generate_bingo_card.                                                    *)
(***************************************************************************)
\* Line 53: "FREE:\nAppreciate Life"
FreeLabel ==
    <<"F", "R", "E", "E", ":", NL, "A", "p", "p", "r", "e", "c", "i", "a", "t", "e",
      SP, "L", "i", "f", "e">>

PinkFace == "#fff0f3"
WhiteFace == "white"

\* [""] * n
RECURSIVE Blanks(_)
Blanks(n) == IF n <= 0 THEN <<>> ELSE <<PyStr(<<>>)>> \o Blanks(n - 1)

\* The slice taken one element too long.
SlotListLong(elems) ==
    IF Len(elems) < SlotCount
    THEN elems \o Blanks(SlotCount - Len(elems))
    ELSE Take(elems, SlotCount + 1)

\* Lines 45-48: the slot list built from the elements of items.
SlotList(elems) ==
    IF Len(elems) < SlotCount
    THEN elems \o Blanks(SlotCount - Len(elems))
    ELSE SubSeq(elems, 1, SlotCount)

\* all_slots bound to the caller's own list.
AliasedSlots == "caller"

\* Lines 46 and 48: concatenation and slicing both make a new list object, to
\* which all_slots is bound.
NewSlots == "fresh"

\* x[i], x[j] = x[j], x[i], with i and j counted from 0.
Swap(x, i, j) == [x EXCEPT ![i + 1] = x[j + 1], ![j + 1] = x[i + 1]]

\* The sets of at most k elements of S.
RECURSIVE SetsUpTo(_, _)
SetsUpTo(S, k) ==
    IF k = 0 THEN {{}}
    ELSE LET smaller == SetsUpTo(S, k - 1)
         IN  smaller \cup {D \cup {a} : D \in smaller, a \in S}

\* What the random source may answer while a list of n elements is shuffled:
\* picks[i] = j < i at the steps i where randbelow(i + 1) is not i itself,
\* which are no more than MaxSwaps of the steps.
RandomPicks(n) ==
    UNION {{f \in [D -> 0..(n - 2)] : \A i \in D : f[i] < i} :
              D \in SetsUpTo(1..(n - 1), MaxSwaps)}

\* random.shuffle: for i in reversed(range(1, len(x))): j = randbelow(i + 1),
\* then the swap.
RECURSIVE FisherYates(_, _, _)
FisherYates(x, i, picks) ==
    IF i < 1 THEN x
    ELSE FisherYates(Swap(x, i, IF i \in DOMAIN picks THEN picks[i] ELSE i), i - 1, picks)

\* The swap written as one assignment: x[i] = x[j].
RECURSIVE FisherYatesOverwriting(_, _, _)
FisherYatesOverwriting(x, i, picks) ==
    IF i < 1 THEN x
    ELSE FisherYatesOverwriting(
             [x EXCEPT ![i + 1] = x[(IF i \in DOMAIN picks THEN picks[i] ELSE i) + 1]],
             i - 1, picks)

ShuffledOverwriting(x, picks) == FisherYatesOverwriting(x, Len(x) - 1, picks)

\* Line 50: the list after random.shuffle(x), for the answers of the random
\* source.
Shuffled(x, picks) == FisherYates(x, Len(x) - 1, picks)

\* list.insert(i, e)
InsertAt(x, i, e) ==
    IF i >= Len(x) THEN Append(x, e)
    ELSE SubSeq(x, 1, i) \o <<e>> \o Drop(x, i)

\* The label put at the end of the list.
AppendFree(x) == Append(x, PyStr(FreeLabel))

\* Line 53: all_slots.insert(12, "FREE:\nAppreciate Life")
InsertFree(x) == InsertAt(x, FreeIndex, PyStr(FreeLabel))

\* The index computed from j alone.
IndexByColumn(i, j) == (4 - j) * 5 + j

\* Line 63: idx = (4 - j) * 5 + i
Index(i, j) == (4 - j) * 5 + i

\* The fill chosen by the row of the index.
FaceOfRow(idx) == IF idx \div 5 = FreeIndex \div 5 THEN PinkFace ELSE WhiteFace

\* Line 70: face_color = "#fff0f3" if idx == 12 else "white"
FaceColor(idx) == IF idx = FreeIndex THEN PinkFace ELSE WhiteFace

\* The n-th iteration of the nested loops of lines 60-61, i outer, j inner.
LoopI(n) == (n - 1) \div GridSize
LoopJ(n) == (n - 1) % GridSize

\* Lines 63-86: the square and the text drawn by one iteration.
Cell(slots, i, j) ==
    LET idx == Index(i, j)
        label == slots[idx + 1]
    IN  [i |-> i, j |-> j, idx |-> idx, label |-> label,
         text |-> WrappedLabel(label.s), face |-> FaceColor(idx)]

\* Line 67 raises for a label that is no str; the iterations before it have
\* drawn their squares.
DrawnCount(slots) ==
    LET total == GridSize * GridSize
        bad == {n \in 1..total : slots[Index(LoopI(n), LoopJ(n)) + 1].t # "str"}
    IN  IF bad = {} THEN total ELSE MinOf(bad) - 1

\* Lines 60-86: the squares drawn, in the order of the loop.
DrawCells(slots) == [n \in 1..DrawnCount(slots) |-> Cell(slots, LoopI(n), LoopJ(n))]

(***************************************************************************)
(* Inputs.                                                                 *)
(***************************************************************************)
\* What the user may have typed in the text area (line 125).
UserTexts == {<<>>, <<SP>>, <<NL, SP>>, <<"a", SP, "b">>, <<SP, "a", NL>>}

\* os.environ.get("OPENROUTER_API_KEY"): unset, set to "", set to a key.
KeyValues == {PyNone, PyStr(<<>>), PyStr(<<"k">>)}

\* Messages of the exceptions the remote call may raise (lines 12-29).
RemoteErrors == {"AuthenticationError", "APIConnectionError"}

\* JSON arrays of strings the model is asked for.
StringArrays ==
    {PyList(<<>>),
     PyList(<<PyStr(<<"a">>)>>),
     PyList(<<PyStr(<<"a">>), PyStr(<<"b", SP, "c">>)>>),
     PyList(<<PyStr(<<"a">>), PyStr(<<"a">>)>>),
     PyList(<<PyStr(<<SP>>), PyStr(<<"a">>), PyStr(<<"b">>)>>),
     PyList(<<PyStr(<<"a", BT, BT, BT, "b">>)>>)}

\* Other JSON values a response may hold.
OtherValues ==
    {PyStr(<<"a", "b">>), PyStr(<<>>), PyInt(1), PyInt(0), PyNone,
     PyList(<<PyInt(1)>>), PyList(<<PyStr(<<"a">>), PyList(<<PyStr(<<"b">>)>>)>>)}

\* The JSON text of a value, as json.dumps writes it.
RECURSIVE Dumps(_)
Dumps(x) ==
    CASE x.t = "none" -> <<"n", "u", "l", "l">>
      [] x.t = "str" -> <<QT>> \o x.s \o <<QT>>
      [] x.t = "int" -> IF x.n = 0 THEN <<"0">> ELSE <<"1">>
      [] x.t = "bool" -> IF x.n = 1 THEN <<"t", "r", "u", "e">>
                         ELSE <<"f", "a", "l", "s", "e">>
      [] OTHER -> <<"[">> \o Join([k \in 1..Len(x.v) |-> Dumps(x.v[k])], <<",", SP>>)
                  \o <<"]">>

\* Responses that are no JSON: prose, a cut-off array, nothing.
BrokenTexts ==
    {<<"n", "o">>, <<"[", QT, "a", QT, ",">>, <<>>}

JsonTag == <<"j", "s", "o", "n">>

\* Language tags of a fenced code block: none, json, JSON.
FenceTags == {<<>>, JsonTag, <<"J", "S", "O", "N">>}

\* A text wrapped in a fenced code block.
Fenced(tag, text) == Fence \o tag \o <<NL>> \o text \o <<NL>> \o Fence

\* The texts the remote model may answer with, for one body.
Wrappings(text) ==
    {text, <<NL>> \o text \o <<SP, NL>>, Fence \o JsonTag \o <<NL>> \o text,
     <<"o", "k", ":", NL>> \o Fenced(JsonTag, text)}
    \cup {Fenced(tag, text) : tag \in FenceTags}

\* response.choices[0].message.content (line 31): a text or None.
Contents ==
    {PyNone}
    \cup UNION {{PyStr(w) : w \in Wrappings(Dumps(x))} : x \in StringArrays \cup OtherValues}
    \cup UNION {{PyStr(w) : w \in Wrappings(t)} : t \in BrokenTexts}

Letters == <<"a", "b", "c", "d", "e", "f">>

\* The k-th of the distinct items of a generated list.
Name(k) == <<Letters[((k - 1) \div 6) + 1], Letters[((k - 1) % 6) + 1]>>

NamedList(n) == PyList([k \in 1..n |-> PyStr(Name(k))])

\* The item lists generate_bingo_card is called with on its own: distinct
\* items of several lengths, and lists with a repeated item, an empty item,
\* a blank item and an item longer than a line.
CardInputs ==
    {NamedList(n) : n \in (0..MaxShort) \cup {SlotCount, MaxLong}}
    \cup {PyList(<<PyStr(<<"a">>), PyStr(<<"a">>)>>),
          PyList(<<PyStr(<<>>), PyStr(<<"a">>)>>),
          PyList(<<PyStr(<<SP>>), PyStr(<<"a">>), PyStr(<<"b">>)>>),
          PyList(<<PyStr(<<"r", "e", "a", "d", SP, "t", "e", "n", SP, "b", "o", "o",
                           "k", "s", SP, "n", "o", "w">>)>>)}

(***************************************************************************)
(* State.                                                                  *)
(***************************************************************************)
VARIABLES
    pc,           \* where the script run stands
    user_input,   \* the text area's value
    api_key,      \* the value of the environment variable
    content,      \* the response's message content, inside parse_items_with_llm
    exc,          \* the message of the exception being raised, or "none"
    items,        \* the script's variable items
    shown,        \* what the run has displayed, in order
    netCalls,     \* remote calls made by this run
    renderCalls,  \* calls of generate_bingo_card made by this run
    extraction,   \* how parse_items_with_llm ended in this run
    cpc,          \* where generate_bingo_card stands
    heap,         \* the caller's object and the one generate_bingo_card makes
    all_slots,    \* the object the local all_slots is bound to
    cells,        \* the squares drawn, in order
    items0        \* the argument as it was when generate_bingo_card was called

driverVars == <<pc, user_input, api_key, content, exc, items, shown, netCalls,
                renderCalls, extraction>>
cardVars == <<cpc, heap, all_slots, cells, items0>>
vars == <<pc, user_input, api_key, content, exc, items, shown, netCalls,
          renderCalls, extraction, cpc, heap, all_slots, cells, items0>>

Unbound == [t |-> "unbound", s |-> <<>>, v |-> <<>>, n |-> 0]

Display(kind, msg, n) == [kind |-> kind, msg |-> msg, n |-> n]

EmptyHeap == [caller |-> PyNone, fresh |-> PyNone]

CardIdle ==
    /\ cpc = "idle"
    /\ heap = EmptyHeap
    /\ all_slots = "unbound"
    /\ cells = <<>>
    /\ items0 = PyNone

DriverIdle ==
    /\ user_input = <<>>
    /\ api_key = PyNone
    /\ content = PyNone
    /\ exc = "none"
    /\ items = Unbound
    /\ shown = <<>>
    /\ netCalls = 0
    /\ renderCalls = 0
    /\ extraction = "none"

\* The page before the button is clicked.
Init == pc = "idle" /\ DriverIdle /\ CardIdle

\* generate_bingo_card called on its own with a list of strings.
CardInit ==
    /\ pc = "card"
    /\ DriverIdle
    /\ cpc = "build"
    /\ \E arg \in CardInputs : heap = [caller |-> arg, fresh |-> PyNone] /\ items0 = arg
    /\ all_slots = "unbound"
    /\ cells = <<>>

(***************************************************************************)
(* generate_bingo_card, statement by statement.                            *)
(***************************************************************************)
\* The list all_slots is bound to.
Slots == heap[all_slots].v

\* Lines 45-48. A str argument shorter than 24 raises TypeError at line 46
\* (str + list); a longer one is sliced into a new str.
BuildSlots ==
    /\ cpc = "build"
    /\ LET arg == heap.caller
       IN  IF arg.t = "list"
           THEN /\ heap' = [heap EXCEPT ![NewSlots] = PyList(SlotList(arg.v))]
                /\ all_slots' = NewSlots
                /\ cpc' = "shuffle"
           ELSE IF arg.t = "str" /\ Len(arg.s) >= SlotCount
           THEN /\ heap' = [heap EXCEPT ![NewSlots] = PyStr(Take(arg.s, SlotCount))]
                /\ all_slots' = NewSlots
                /\ cpc' = "shuffle"
           ELSE /\ cpc' = "raised"
                /\ UNCHANGED <<heap, all_slots>>
    /\ UNCHANGED <<cells, items0>>
    /\ UNCHANGED driverVars

\* Line 50. random.shuffle assigns into its argument, which a str refuses.
Shuffle ==
    /\ cpc = "shuffle"
    /\ IF heap[all_slots].t = "list"
       THEN /\ \E picks \in RandomPicks(Len(Slots)) :
                  heap' = [heap EXCEPT ![all_slots] = PyList(Shuffled(Slots, picks))]
            /\ cpc' = "insert"
       ELSE /\ cpc' = "raised"
            /\ UNCHANGED heap
    /\ UNCHANGED <<all_slots, cells, items0>>
    /\ UNCHANGED driverVars

\* Line 53.
InsertFreeSquare ==
    /\ cpc = "insert"
    /\ heap' = [heap EXCEPT ![all_slots] = PyList(InsertFree(Slots))]
    /\ cpc' = "draw"
    /\ UNCHANGED <<all_slots, cells, items0>>
    /\ UNCHANGED driverVars

\* Lines 56-116: the figure, the 25 iterations of the drawing loop, the
\* headers and the title, and the return of the figure. The loop stops at the
\* first label textwrap cannot take, and the exception leaves the function.
DrawGrid ==
    /\ cpc = "draw"
    /\ cells' = DrawCells(Slots)
    /\ cpc' = IF DrawnCount(Slots) = GridSize * GridSize THEN "returned" ELSE "raised"
    /\ UNCHANGED <<heap, all_slots, items0>>
    /\ UNCHANGED driverVars

(***************************************************************************)
(* The script, run once per click of the button.                           *)
(***************************************************************************)
\* The test without the strip.
InputBlankUnstripped(text) == text = <<>>

\* Line 134: not user_input.strip()
InputBlank(text) == Strip(text) = <<>>

\* Line 133: the button is clicked and the script runs from the top with the
\* widgets' values; what an earlier run displayed is gone.
Click(text, key) ==
    /\ pc \in {"idle", "done", "crashed"}
    /\ pc' = "check"
    /\ user_input' = text
    /\ api_key' = key
    /\ content' = PyNone
    /\ exc' = "none"
    /\ items' = Unbound
    /\ shown' = <<>>
    /\ netCalls' = 0
    /\ renderCalls' = 0
    /\ extraction' = "none"
    /\ cpc' = "idle"
    /\ heap' = EmptyHeap
    /\ all_slots' = "unbound"
    /\ cells' = <<>>
    /\ items0' = PyNone

\* Lines 134-138: the two presence checks.
CheckInput ==
    /\ pc = "check"
    /\ IF InputBlank(user_input)
       THEN /\ shown' = Append(shown, Display("error", "Please enter some items first!", 0))
            /\ pc' = "done"
       ELSE IF ~Truthy(api_key)
       THEN /\ shown' = Append(shown,
                   Display("error", "Please set OPENROUTER_API_KEY environment variable", 0))
            /\ pc' = "done"
       ELSE /\ shown' = shown
            /\ pc' = "call"
    /\ UNCHANGED <<user_input, api_key, content, exc, items, netCalls, renderCalls,
                   extraction>>
    /\ UNCHANGED cardVars

\* Lines 12-29: the request is sent; it raises, or a response comes back.
CallRemote ==
    /\ pc = "call"
    /\ netCalls' = netCalls + 1
    /\ \/ \E msg \in RemoteErrors :
             /\ exc' = msg
             /\ extraction' = "raised"
             /\ pc' = "except"
             /\ content' = content
       \/ \E c \in Contents :
             /\ content' = c
             /\ pc' = "parse"
             /\ UNCHANGED <<exc, extraction>>
    /\ UNCHANGED <<user_input, api_key, items, shown, renderCalls>>
    /\ UNCHANGED cardVars

\* Lines 31-39 and the assignment of line 141. A content of None raises at
\* .strip(); a text json.loads rejects raises JSONDecodeError.
ParseResponse ==
    /\ pc = "parse"
    /\ IF content.t # "str"
       THEN /\ exc' = "AttributeError"
            /\ extraction' = "raised"
            /\ pc' = "except"
            /\ items' = items
       ELSE LET r == ParseContent(content.s)
            IN  IF r.ok
                THEN /\ items' = r.val
                     /\ extraction' = "returned"
                     /\ pc' = "show"
                     /\ exc' = exc
                ELSE /\ exc' = "JSONDecodeError"
                     /\ extraction' = "raised"
                     /\ pc' = "except"
                     /\ items' = items
    /\ content' = PyNone
    /\ UNCHANGED <<user_input, api_key, shown, netCalls, renderCalls>>
    /\ UNCHANGED cardVars

\* Lines 142-146: the success message and the list of parsed items; len()
\* of a value without a length raises TypeError before anything is shown.
ShowParsed ==
    /\ pc = "show"
    /\ IF HasLen(items)
       THEN /\ shown' = shown \o <<Display("success", "Found items", PyLen(items)),
                                   Display("parsed", "View parsed items", PyLen(items))>>
            /\ pc' = "decide"
            /\ exc' = exc
       ELSE /\ exc' = "TypeError"
            /\ pc' = "except"
            /\ shown' = shown
    /\ UNCHANGED <<user_input, api_key, content, items, netCalls, renderCalls, extraction>>
    /\ UNCHANGED cardVars

\* Lines 148-150.
HandleException ==
    /\ pc = "except"
    /\ shown' = Append(shown, Display("error", exc, 0))
    /\ items' = PyNone
    /\ exc' = "none"
    /\ pc' = "decide"
    /\ UNCHANGED <<user_input, api_key, content, netCalls, renderCalls, extraction>>
    /\ UNCHANGED cardVars

\* Lines 152-154: if items, generate_bingo_card is called with it.
Decide ==
    /\ pc = "decide"
    /\ IF Truthy(items)
       THEN /\ renderCalls' = renderCalls + 1
            /\ pc' = "render"
            /\ cpc' = "build"
            /\ heap' = [caller |-> items, fresh |-> PyNone]
            /\ items0' = items
       ELSE /\ pc' = "done"
            /\ UNCHANGED <<renderCalls, cpc, heap, items0>>
    /\ UNCHANGED <<user_input, api_key, content, exc, items, shown, netCalls, extraction>>
    /\ UNCHANGED <<all_slots, cells>>

\* Lines 155-156: the figure is displayed.
ShowFigure ==
    /\ pc = "render"
    /\ cpc = "returned"
    /\ shown' = Append(shown, Display("image", "figure", Len(cells)))
    /\ pc' = "done"
    /\ UNCHANGED <<user_input, api_key, content, exc, items, netCalls, renderCalls,
                   extraction>>
    /\ UNCHANGED cardVars

\* An exception of generate_bingo_card is caught by nothing: the run ends
\* with it.
Uncaught ==
    /\ pc = "render"
    /\ cpc = "raised"
    /\ pc' = "crashed"
    /\ UNCHANGED <<user_input, api_key, content, exc, items, shown, netCalls, renderCalls,
                   extraction>>
    /\ UNCHANGED cardVars

Next ==
    \/ \E text \in UserTexts, key \in KeyValues : Click(text, key)
    \/ CheckInput
    \/ CallRemote
    \/ ParseResponse
    \/ ShowParsed
    \/ HandleException
    \/ Decide
    \/ BuildSlots
    \/ Shuffle
    \/ InsertFreeSquare
    \/ DrawGrid
    \/ ShowFigure
    \/ Uncaught

Spec == Init /\ [][Next]_vars

CardNext ==
    \/ BuildSlots
    \/ Shuffle
    \/ InsertFreeSquare
    \/ DrawGrid

CardSpec == CardInit /\ [][CardNext]_vars

(***************************************************************************)
(* Properties.                                                             *)
(***************************************************************************)
EmptyStr == PyStr(<<>>)

Count(seq, x) == Cardinality({k \in 1..Len(seq) : seq[k] = x})

\* The argument of the running call of generate_bingo_card.
Arg == items0.v

\* The slot list the specification describes for the argument.
ExpectedSlots == [k \in 1..24 |-> IF k <= Len(Arg) THEN Arg[k] ELSE EmptyStr]

Drawn == cpc = "returned"

Inserted == cpc \in {"draw", "returned"}

\* The squares other than the one at the centre of the grid.
OuterCells == {n \in 1..Len(cells) : ~(cells[n].i = 2 /\ cells[n].j = 2)}

HasVisible(chars) == \E k \in 1..Len(chars) : chars[k] \notin {SP, NL, "\t", "\r"}

BlankText(chars) == \A k \in 1..Len(chars) : chars[k] \in {SP, NL, "\t", "\r"}

\* C1: the slot list built before the shuffle has exactly 24 elements: for
\* fewer than 24 items, the items in their order followed by empty strings;
\* for 24 or more, the first 24 items in their order.
C1_SlotListBuilt ==
    cpc = "shuffle" =>
        /\ Len(Slots) = 24
        /\ Len(Arg) < 24 =>
               /\ \A k \in 1..Len(Arg) : Slots[k] = Arg[k]
               /\ \A k \in (Len(Arg) + 1)..24 : Slots[k] = EmptyStr
               /\ Count(Slots, EmptyStr) = (24 - Len(Arg)) + Count(Arg, EmptyStr)
        /\ Len(Arg) >= 24 => \A k \in 1..24 : Slots[k] = Arg[k]

C1_Witness == cpc = "shuffle" /\ Len(Arg) > 24 /\ Len(Slots) = 24

\* C2: whatever the input and the shuffle, the sequence the card is drawn
\* from has exactly 25 elements and the free-space label at index 12.
C2_FreeAtIndex12 ==
    Inserted => Len(Slots) = 25 /\ Slots[12 + 1] = PyStr(FreeLabel)

C2_Witness ==
    /\ cpc = "draw"
    /\ Len(Arg) > 24
    /\ \E k \in 1..24 : Slots[IF k <= 12 THEN k ELSE k + 1] # Arg[k]

\* C3: idx = (4 - j) * 5 + i maps the 25 grid coordinates one-to-one onto
\* the indices 0..24: every index read by the loop is in 0..24 and each is
\* read exactly once over the 25 iterations.
C3_IndexBijection ==
    Drawn =>
        /\ Len(cells) = 25
        /\ \A i \in 0..4, j \in 0..4 :
               Cardinality({n \in 1..25 : cells[n].i = i /\ cells[n].j = j}) = 1
        /\ \A n \in 1..25 :
               /\ cells[n].idx = (4 - cells[n].j) * 5 + cells[n].i
               /\ cells[n].idx \in 0..24
               /\ cells[n].label = Slots[cells[n].idx + 1]
        /\ \A k \in 0..24 : Cardinality({n \in 1..25 : cells[n].idx = k}) = 1

C3_Witness == cpc = "returned" /\ Len(cells) = 25 /\ cells[25].idx = 4

\* How many of the squares other than the centre were given the label x.
LabelCount(x) == Cardinality({n \in OuterCells : cells[n].label = x})

\* The labels of the squares other than the centre are the slot list in
\* some order.
OuterPermuteSlots ==
    /\ Cardinality(OuterCells) = 24
    /\ \A x \in Range(ExpectedSlots) \cup {cells[n].label : n \in OuterCells} :
           LabelCount(x) = Count(ExpectedSlots, x)

ShownTexts(S) == {n \in S : cells[n].text # <<>>}

\* C4 as amended: the labels read for the 24 squares other than the centre
\* are a permutation of the slot list; each is shown wrapped, so that three
\* items that each hold a visible character give exactly 3 labeled squares,
\* 21 empty ones and the free square, and more than 24 distinct items give
\* the first 24, each once.
C4_LabelsPermuteSlots ==
    Drawn =>
        /\ OuterPermuteSlots
        /\ \A n \in OuterCells : BlankText(cells[n].label.s) <=> cells[n].text = <<>>
        /\ (Len(Arg) = 3 /\ \A k \in 1..3 : HasVisible(Arg[k].s)) =>
               /\ Cardinality(ShownTexts(OuterCells)) = 3
               /\ Cardinality(OuterCells \ ShownTexts(OuterCells)) = 21
               /\ Cardinality((1..25) \ OuterCells) = 1
        /\ (Len(Arg) > 24 /\ Cardinality(Range(Arg)) = Len(Arg)) =>
               /\ \A k \in 1..24 : LabelCount(Arg[k]) = 1
               /\ \A k \in 25..Len(Arg) : LabelCount(Arg[k]) = 0

C4_Witness ==
    /\ cpc = "returned"
    /\ Len(Arg) = 3
    /\ \A k \in 1..3 : HasVisible(Arg[k].s)
    /\ \E k \in 1..3 : Slots[k] # Arg[k]

\* C4 as stated: the 24 squares other than the centre hold a permutation of
\* the slot list, and three non-empty items give exactly 3 labeled squares
\* and 21 empty ones on the rendered card.
C4_Original ==
    Drawn =>
        /\ OuterPermuteSlots
        /\ (Len(Arg) = 3 /\ \A k \in 1..3 : Arg[k].s # <<>>) =>
               /\ Cardinality(ShownTexts(OuterCells)) = 3
               /\ Cardinality(OuterCells \ ShownTexts(OuterCells)) = 21
               /\ Cardinality((1..25) \ OuterCells) = 1
        /\ (Len(Arg) > 24 /\ Cardinality(Range(Arg)) = Len(Arg)) =>
               /\ \A k \in 1..24 : LabelCount(Arg[k]) = 1
               /\ \A k \in 25..Len(Arg) : LabelCount(Arg[k]) = 0

\* C9: on every rendered card exactly one square has the free-space fill; it
\* is the square at column 2, row 2 and shows the free-space label; the
\* other 24 squares have the plain fill.
C9_OnePinkCentre ==
    Drawn =>
        /\ Cardinality({n \in 1..Len(cells) : cells[n].face = "#fff0f3"}) = 1
        /\ \A n \in 1..Len(cells) :
               IF cells[n].i = 2 /\ cells[n].j = 2
               THEN /\ cells[n].face = "#fff0f3"
                    /\ cells[n].label = PyStr(FreeLabel)
                    /\ cells[n].text = FreeLabel
               ELSE cells[n].face = "white"
        /\ Cardinality({n \in 1..Len(cells) : cells[n].face = "white"}) = 24

C9_Witness ==
    /\ cpc = "returned"
    /\ Len(Arg) > 24
    /\ \E n \in 1..Len(cells) : cells[n].face = "#fff0f3"

\* C10: generate_bingo_card never modifies the caller's list: it has the
\* same elements in the same order at every point of the call.
C10_CallerListUnchanged == heap.caller = items0

C10_Witness ==
    /\ cpc = "returned"
    /\ Len(Arg) = 24
    /\ heap.fresh.v # InsertFree(Arg)
    /\ heap.caller.v = Arg

UserError == Display("error", "Please enter some items first!", 0)

ConfigError == Display("error", "Please set OPENROUTER_API_KEY environment variable", 0)

\* The run is past the two presence checks of lines 134-137.
Checked == pc \notin {"idle", "check"}

\* The run is over.
Ended == pc \in {"done", "crashed"}

\* C5: a network call is attempted only for a text that is not empty or
\* blank and with the credential present. A blank text reports the user-input
\* error and attempts neither extraction nor rendering, also without a
\* credential; a text without a credential reports the configuration error
\* and attempts neither.
C5_PresenceChecks ==
    /\ netCalls > 0 => HasVisible(user_input) /\ api_key # PyNone
    /\ (Checked /\ BlankText(user_input)) =>
           /\ pc = "done"
           /\ shown = <<UserError>>
           /\ netCalls = 0 /\ renderCalls = 0 /\ extraction = "none" /\ cpc = "idle"
    /\ (Checked /\ HasVisible(user_input) /\ api_key = PyNone) =>
           /\ pc = "done"
           /\ shown = <<ConfigError>>
           /\ netCalls = 0 /\ renderCalls = 0 /\ extraction = "none" /\ cpc = "idle"

C5_Witness ==
    /\ pc = "done"
    /\ user_input = <<NL, SP>>
    /\ api_key = PyNone
    /\ shown = <<UserError>>

ShowsPartial == \E k \in 1..Len(shown) : shown[k].kind \in {"success", "parsed", "image"}

ShowsError == \E k \in 1..Len(shown) : shown[k].kind = "error"

\* C6: when the remote call or the parsing raises, the exception is caught,
\* its message is reported, rendering is not executed and no partial result
\* is displayed; no run that ends in a failure displays partial results.
C6_NoPartialOnFailure ==
    /\ (extraction = "raised" /\ pc \in {"decide", "done", "render", "crashed"}) =>
           /\ Len(shown) = 1
           /\ shown[1].kind = "error"
           /\ shown[1].msg \in RemoteErrors \cup {"AttributeError", "JSONDecodeError"}
           /\ renderCalls = 0
           /\ pc # "crashed"
    /\ (Ended /\ (pc = "crashed" \/ ShowsError)) => ~ShowsPartial

\* The parsed value has a length and it is not zero.
NonEmptySized(x) ==
    \/ x.t = "list" /\ Len(x.v) > 0
    \/ x.t = "str" /\ Len(x.s) > 0

PassedChecks == Checked /\ HasVisible(user_input) /\ api_key.t = "str" /\ api_key.s # <<>>

C8_FenceStripped ==
    [][(pc = "parse" /\ content.t = "str") =>
          /\ \A A \in StringArrays :
                 (\/ content.s = Dumps(A)
                  \/ \E tag \in FenceTags : content.s = Fenced(tag, Dumps(A)))
                 => (pc' = "show" /\ items' = A)
          /\ \A t \in BrokenTexts :
                 content.s \in Wrappings(t) => (pc' = "except" /\ exc' = "JSONDecodeError")
      ]_vars

====
